---- MODULE Spec2Model ----
(***************************************************************************)
(* Model of examples/sprite_animation/main.rs: the two-state application   *)
(* lifecycle (Loading -> Example, the "Running State") and the one-shot    *)
(* world setup performed by Example::on_start.                             *)
(*                                                                         *)
(* The state callbacks are translated from main.rs.  The engine pieces the *)
(* example calls into (progress counter, asset loader, prefab loader       *)
(* system, animation control set, state-machine driver) are not part of    *)
(* main.rs; they are modelled from the specification's description of      *)
(* them and are marked as such where they are defined.                     *)
(***************************************************************************)
EXTENDS Integers, Sequences, FiniteSets, TLC

(* ---------------------------- bounds ----------------------------------- *)
\* number of engine ticks counted; the engine ticks on beyond it
MaxTicks == 4
\* screen width and height range over 1..MaxDim
MaxDim == 2
\* handle identifiers the asset storage may hand out range over 1..MaxHandle
MaxHandle == 2
\* entities already in the world when Example::on_start is applied to a
\* populated world
MaxExtra == 2

Dims == 1..MaxDim
Handles == 1..MaxHandle

(* ---------------------------- constants -------------------------------- *)
\* enum AnimationId { Fly }
AnimationIds == {"Fly"}
Fly == "Fly"

\* Option<T>: None is the empty set, Some(x) the singleton {x}
None == {}
Some(x) == {x}

\* exit status of a Rust process that panicked
PanicExit == 101
\* exit status when main returns Err
ExitFailure == 1
\* exit status when main returns Ok(())
ExitOk == 0

\* camera_transform.set_translation_z(1.0)
CameraZ == 1
\* playback rate 1.0 passed to add_animation
RateOne == 1

VARIABLES
    process,     \* "new" (main entered, run not yet), "alive", "exited"
    exit_code,   \* None while the process lives, Some(code) once it exited
    state,       \* the active state of the state machine: "Loading" | "Running"
    loading,     \* the Loading struct: [progress_counter, prefab_handle]
    example,     \* the Example struct's prefab_handle: None until Example is built
    trans,       \* the transition decision returned by the last update call
    world,       \* the engine's world: resources and component storages
    resource,    \* the descriptor file on disk: [status, clips]
    loader,      \* the asynchronous load: "idle" | "loading" | "loaded" | "failed"
    ticks,       \* number of ticks run so far, counted up to MaxTicks
    frame        \* the engine's frame number, kept modulo 2

vars == <<process, exit_code, state, loading, example, trans, world, resource,
          loader, ticks, frame>>

(* ----------------- engine collaborators (from the spec) ---------------- *)

\* ProgressCounter::is_complete: no outstanding load operation
is_complete(progress_counter) == progress_counter = 0

\* get_animation_set: obtains or lazily creates the entity's control set
get_animation_set(control_sets, entity) ==
    IF entity \in DOMAIN control_sets
    THEN control_sets
    ELSE control_sets @@ (entity :> <<>>)

\* AnimationControlSet::add_animation: starts the animation unless an entry
\* with the same id is already present
add_animation(control_set, id, end, rate, command) ==
    IF \E i \in DOMAIN control_set : control_set[i].id = id
    THEN control_set
    ELSE Append(control_set,
                [id |-> id, end |-> end, rate |-> rate, command |-> command])

\* Projection::orthographic(left, right, bottom, top)
orthographic(left, right, bottom, top) ==
    [left |-> left, right |-> right, bottom |-> bottom, top |-> top]

\* PrefabLoaderSystem: expands every entity carrying a handle to a resolved
\* prefab, once, into the descriptor's component set
PrefabLoaderSystem(w) ==
    LET todo == {e \in DOMAIN w.prefab_handles :
                    /\ e \notin w.prefab_tag
                    /\ w.prefab_handles[e] \in DOMAIN w.assets}
    IN [w EXCEPT
          !.animation_sets =
              [e \in (DOMAIN @) \cup todo |->
                  IF e \in todo THEN w.assets[w.prefab_handles[e]] ELSE @[e]],
          !.prefab_tag = @ \cup todo]

(* ------------------------- Loading (main.rs) --------------------------- *)

\* #[derive(Default)] struct Loading
LoadingDefault == [progress_counter |-> 0, prefab_handle |-> None]

\* Loading::on_start that drops the handle the loader returns
LoadingOnStart_NoStore(self, handle) ==
    [self EXCEPT !.progress_counter = @ + 1]

\* Loading::update that never finds the load complete
LoadingUpdate_Stuck(self) ==
    [kind |-> "None", to |-> "Loading", handle |-> None]

\* Loading::update that falls back to a default handle when none is stored
LoadingUpdate_DefaultHandle(self) ==
    IF is_complete(self.progress_counter)
    THEN [kind |-> "Switch", to |-> "Running",
          handle |-> IF self.prefab_handle = None THEN Some(1)
                     ELSE self.prefab_handle]
    ELSE [kind |-> "None", to |-> "Loading", handle |-> None]

\* Loading::on_start: one load request, registered with the progress counter;
\* the returned handle is stored
LoadingOnStart(self, handle) ==
    [self EXCEPT !.prefab_handle = Some(handle),
                 !.progress_counter = @ + 1]

\* Loading::update with the is_complete check dropped
LoadingUpdate_NoCheck(self) ==
    IF self.prefab_handle = None
    THEN [kind |-> "Panic", to |-> "Loading", handle |-> None]
    ELSE [kind |-> "Switch", to |-> "Running", handle |-> self.prefab_handle]

\* Loading::update that builds Example from a fresh handle, not the stored one
LoadingUpdate_WrongHandle(self) ==
    IF is_complete(self.progress_counter)
    THEN IF self.prefab_handle = None
         THEN [kind |-> "Panic", to |-> "Loading", handle |-> None]
         ELSE [kind |-> "Switch", to |-> "Running",
               handle |-> {(h % MaxHandle) + 1 : h \in self.prefab_handle}]
    ELSE [kind |-> "None", to |-> "Loading", handle |-> None]

\* Loading::update
LoadingUpdate(self) ==
    IF is_complete(self.progress_counter)
    THEN IF self.prefab_handle = None
         THEN [kind |-> "Panic", to |-> "Loading", handle |-> None]
         ELSE [kind |-> "Switch", to |-> "Running", handle |-> self.prefab_handle]
    ELSE [kind |-> "None", to |-> "Loading", handle |-> None]

\* Loading::update that issues the load request again at every poll
LoadingAfterUpdate_Reload(self) ==
    [self EXCEPT !.progress_counter = @ + 1]

\* Loading::update, its effect on the Loading struct (&mut self): it assigns
\* no field and calls no loader
LoadingAfterUpdate(self) == self

(* ------------------------- Example (main.rs) --------------------------- *)

\* initialise_camera that builds no entity
initialise_camera_NoEntity(w) == w

\* initialise_camera with width and height swapped and the depth left at 0
initialise_camera_Swapped(w) ==
    LET width == w.screen.width
        height == w.screen.height
        entity == w.n + 1
    IN [w EXCEPT !.n = entity,
                 !.transforms = @ @@ (entity :> [x |-> 0, y |-> 0, z |-> 0]),
                 !.cameras = @ @@ (entity :> orthographic(0, height, 0, width))]

\* initialise_camera
initialise_camera(w) ==
    LET width == w.screen.width
        height == w.screen.height
        camera_transform == [x |-> 0, y |-> 0, z |-> CameraZ]
        entity == w.n + 1
    IN [w EXCEPT !.n = entity,
                 !.transforms = @ @@ (entity :> camera_transform),
                 !.cameras = @ @@ (entity :> orthographic(0, width, 0, height))]

\* scene entity creation that attaches no handle component
create_scene_entity_NoHandle(w, prefab_handle) ==
    [w EXCEPT !.n = w.n + 1]

\* world.create_entity().with(self.prefab_handle.clone()).build()
create_scene_entity(w, prefab_handle) ==
    LET entity == w.n + 1
    IN [w EXCEPT !.n = entity,
                 !.prefab_handles = @ @@ (entity :> prefab_handle)]

\* control_set.add_animation(Fly, clip, EndControl::Loop(None), 1.0, Start)
FlyControl(control_set) ==
    add_animation(control_set, Fly, "Loop(None)", RateOne, "Start")

\* the body of the pass, from entity onwards, in join order; stops at the
\* first unwrap that fails
RECURSIVE PassFrom(_, _, _)
PassFrom(w, entity, control_sets) ==
    IF entity > w.n
    THEN [control_sets |-> control_sets, panicked |-> FALSE]
    ELSE IF entity \notin DOMAIN w.animation_sets
    THEN PassFrom(w, entity + 1, control_sets)
    ELSE LET cs == get_animation_set(control_sets, entity)
         IN IF Fly \notin w.animation_sets[entity]
            THEN [control_sets |-> cs, panicked |-> TRUE]
            ELSE PassFrom(w, entity + 1,
                          [cs EXCEPT ![entity] = FlyControl(@)])

\* the pass with the unwrap of the clip lookup replaced by a silent skip
AnimationPass_Lenient(w) ==
    LET r == PassFrom(w, 1, w.control_sets)
    IN [world |-> [w EXCEPT !.control_sets = r.control_sets],
        panicked |-> FALSE]

\* world.exec(|(entities, animation_sets, mut control_sets)| ...)
AnimationPass(w) ==
    LET r == PassFrom(w, 1, w.control_sets)
    IN [world |-> [w EXCEPT !.control_sets = r.control_sets],
        panicked |-> r.panicked]

\* Example::on_start: the camera, the scene entity, then at once the pass;
\* nothing is dispatched in between, so the new scene entity carries only its
\* handle when the pass joins over the Animation Sets
ExampleOnStart(prefab_handle, w) ==
    LET w1 == initialise_camera(w)
        w2 == create_scene_entity(w1, prefab_handle)
    IN AnimationPass(w2)

\* Example::update that asks to go back to Loading
ExampleUpdate_Back(prefab_handle) ==
    [kind |-> "Switch", to |-> "Loading", handle |-> None]

\* Example::update that fails
ExampleUpdate_Panic(prefab_handle) ==
    [kind |-> "Panic", to |-> "Running", handle |-> None]

\* Example::update
ExampleUpdate(prefab_handle) ==
    [kind |-> "None", to |-> "Running", handle |-> None]

(* ------------------------------ Init ----------------------------------- *)

\* the world right after Application::new: no entity, empty storages
EmptyWorld(width, height) ==
    [n |-> 0,
     screen |-> [width |-> width, height |-> height],
     assets |-> <<>>,
     transforms |-> <<>>,
     cameras |-> <<>>,
     prefab_handles |-> <<>>,
     prefab_tag |-> {},
     animation_sets |-> <<>>,
     control_sets |-> <<>>]

\* main entered: nothing built yet but the Loading::default() it will hand to
\* Application::new
Init ==
    /\ process = "new"
    /\ exit_code = None
    /\ state = "Loading"
    /\ loading = LoadingDefault
    /\ example = None
    /\ trans = "NoUpdate"
    /\ \E width \in Dims, height \in Dims : world = EmptyWorld(width, height)
    /\ \E status \in {"ok", "missing", "malformed"}, clips \in SUBSET AnimationIds :
          resource = [status |-> status, clips |-> clips]
    /\ loader = "idle"
    /\ ticks = 0
    /\ frame = 0

(* ----------------------------- actions --------------------------------- *)

\* one of the ? of main returns Err before the application runs
StartupError ==
    /\ process = "new"
    /\ process' = "exited"
    /\ exit_code' = Some(ExitFailure)
    /\ UNCHANGED <<state, loading, example, trans, world, resource, loader, ticks,
                   frame>>

\* game.run() returns (the window was closed) and main returns Ok(())
Shutdown ==
    /\ process = "alive"
    /\ process' = "exited"
    /\ exit_code' = Some(ExitOk)
    /\ UNCHANGED <<state, loading, example, trans, world, resource, loader, ticks,
                   frame>>

\* setup succeeded and game.run() starts the state machine, which calls
\* Loading::on_start; the asset storage hands out the handle
AppStart ==
    /\ process = "new"
    /\ process' = "alive"
    /\ \E handle \in Handles : loading' = LoadingOnStart(loading, handle)
    /\ loader' = "loading"
    /\ UNCHANGED <<exit_code, state, example, trans, world, resource, ticks, frame>>

\* the asynchronous load resolves the descriptor into the asset storage
LoadSucceed ==
    /\ process = "alive"
    /\ loader = "loading"
    /\ resource.status = "ok"
    /\ loader' = "loaded"
    /\ loading' = [loading EXCEPT !.progress_counter = @ - 1]
    /\ world' = [world EXCEPT
                    !.assets = @ @@ [h \in loading.prefab_handle |-> resource.clips]]
    /\ UNCHANGED <<process, exit_code, state, example, trans, resource, ticks,
                   frame>>

\* the asynchronous load ends in failure, inside game.run(): nothing is
\* resolved into the asset storage and the progress counter never reports the
\* load complete; main.rs has no path from here to an exit status, so the
\* application runs on
LoadFail ==
    /\ process = "alive"
    /\ loader = "loading"
    /\ resource.status # "ok"
    /\ loader' = "failed"
    /\ UNCHANGED <<process, exit_code, state, loading, example, trans, world,
                   resource, ticks, frame>>

\* the window is resized: ScreenDimensions changes
Resize ==
    /\ process = "alive"
    /\ \E width \in Dims, height \in Dims :
          /\ <<width, height>> # <<world.screen.width, world.screen.height>>
          /\ world' = [world EXCEPT !.screen = [width |-> width, height |-> height]]
    /\ UNCHANGED <<process, exit_code, state, loading, example, trans, resource,
                   loader, ticks, frame>>

\* the outcome of one frame: the decision r of the active state's update,
\* then the dispatcher (prefab loader), then the transition with the new
\* state's on_start
Frame(r) ==
    LET dispatched == PrefabLoaderSystem(world)
    IN
    /\ ticks' = IF ticks < MaxTicks THEN ticks + 1 ELSE ticks
    /\ frame' = 1 - frame
    /\ trans' = r.kind
    /\ UNCHANGED <<resource, loader>>
    /\ CASE r.kind = "Panic" ->
              /\ process' = "exited"
              /\ exit_code' = Some(PanicExit)
              /\ UNCHANGED <<state, example, world>>
         [] r.kind = "None" ->
              /\ world' = dispatched
              /\ UNCHANGED <<process, exit_code, state, example>>
         [] r.kind = "Switch" /\ r.to = "Running" ->
              LET s == ExampleOnStart(CHOOSE h \in r.handle : TRUE, dispatched)
              IN /\ state' = "Running"
                 /\ example' = r.handle
                 /\ world' = s.world
                 /\ process' = IF s.panicked THEN "exited" ELSE process
                 /\ exit_code' = IF s.panicked THEN Some(PanicExit) ELSE exit_code
         [] r.kind = "Switch" /\ r.to = "Loading" ->
              /\ state' = "Loading"
              /\ world' = dispatched
              /\ UNCHANGED <<process, exit_code, example>>

\* one tick while Loading is the active state
LoadingTick ==
    /\ process = "alive"
    /\ state = "Loading"
    /\ loading' = LoadingAfterUpdate(loading)
    /\ Frame(LoadingUpdate(loading))

\* one tick while Example is the active state
RunningTick ==
    /\ process = "alive"
    /\ state = "Running"
    /\ UNCHANGED loading
    /\ Frame(ExampleUpdate(CHOOSE h \in example : TRUE))

Next ==
    \/ StartupError
    \/ Shutdown
    \/ AppStart
    \/ LoadSucceed
    \/ LoadFail
    \/ Resize
    \/ LoadingTick
    \/ RunningTick

Spec == Init /\ [][Next]_vars

\* the engine keeps ticking, and a load once issued runs to completion or
\* failure
FairSpec ==
    /\ Spec
    /\ WF_vars(AppStart)
    /\ WF_vars(LoadSucceed)
    /\ WF_vars(LoadFail)
    /\ WF_vars(LoadingTick)
    /\ WF_vars(RunningTick)

\* a caller that polls the freshly defaulted Loading before on_start has run
EarlyUpdate ==
    /\ process = "new"
    /\ state = "Loading"
    /\ loading' = LoadingAfterUpdate(loading)
    /\ Frame(LoadingUpdate(loading))

DirectNext ==
    \/ Next
    \/ EarlyUpdate

\* the callbacks driven without the engine's guarantee that on_start comes
\* first
DirectSpec == Init /\ [][DirectNext]_vars

\* the control sets an entity may hold before the pass runs: an empty one, or
\* one in which Fly already plays, with a finite or an endless end control
PriorControlSets ==
    {<<>>} \cup
    {<<[id |-> Fly, end |-> end, rate |-> RateOne, command |-> "Start"]>> :
        end \in {"Stay", "Loop(None)"}}

\* a world that already holds k entities: sets[e] is entity e's Animation Set
\* and ctrl[e] its control set (None: it has none); the prefab behind handle
\* is resolved
PopulatedWorld(width, height, handle, clips, k, sets, ctrl) ==
    [EmptyWorld(width, height) EXCEPT
        !.n = k,
        !.assets = (handle :> clips),
        !.animation_sets =
            [e \in {x \in 1..k : sets[x] # None} |-> CHOOSE a \in sets[e] : TRUE],
        !.control_sets =
            [e \in {x \in 1..k : ctrl[x] # None} |-> CHOOSE c \in ctrl[e] : TRUE]]

\* Loading with its load complete, about to be polled, in a populated world
OnStartInit ==
    /\ process = "alive"
    /\ exit_code = None
    /\ state = "Loading"
    /\ example = None
    /\ trans = "NoUpdate"
    /\ loader = "loaded"
    /\ ticks = 0
    /\ frame = 0
    /\ \E handle \in Handles, clips \in SUBSET AnimationIds :
          /\ loading = [progress_counter |-> 0, prefab_handle |-> Some(handle)]
          /\ resource = [status |-> "ok", clips |-> clips]
          /\ \E width \in Dims, height \in Dims, k \in 0..MaxExtra :
                \E sets \in [1..k -> {None} \cup {Some(a) : a \in SUBSET AnimationIds}],
                   ctrl \in [1..k -> {None} \cup {Some(c) : c \in PriorControlSets}] :
                   world = PopulatedWorld(width, height, handle, clips, k, sets, ctrl)

OnStartNext ==
    \/ LoadingTick
    \/ RunningTick
    \/ Resize

\* Example::on_start applied to worlds that already hold entities with
\* Animation Sets and control sets
OnStartSpec == OnStartInit /\ [][OnStartNext]_vars

(* --------------------------- vocabulary -------------------------------- *)

\* the entities carrying a prefab handle component (scene entities)
SceneEntities == DOMAIN world.prefab_handles

\* the entities carrying a camera component
CameraEntities == DOMAIN world.cameras

\* the control entry the pass is meant to leave behind
FlyEntry ==
    [id |-> Fly, end |-> "Loop(None)", rate |-> RateOne, command |-> "Start"]

\* entity has an active, endlessly looping Fly animation
FlyStarted(entity) ==
    /\ entity \in DOMAIN world.control_sets
    /\ \E i \in DOMAIN world.control_sets[entity] :
          /\ world.control_sets[entity][i].id = Fly
          /\ world.control_sets[entity][i].end = "Loop(None)"
          /\ world.control_sets[entity][i].command = "Start"

\* Example::on_start has returned and the process lives on
OnStartReturned == state = "Running" /\ process = "alive"

\* the state right after the frame in which Example::on_start ran
JustStarted == state = "Running" /\ trans = "Switch"

(* ------------------------------ claims --------------------------------- *)

\* C1: while the progress counter reports outstanding load operations, no
\* step leaves Loading, and every tick's decision is "no transition".
C1_NoEarlyTransition ==
    [][(state = "Loading" /\ ~is_complete(loading.progress_counter))
          => /\ state' = "Loading"
             /\ (frame' # frame => trans' = "None")]_vars

\* C1 witness: Loading::update has run several times with the load outstanding
C1_Witness ==
    /\ state = "Loading"
    /\ ticks >= 2
    /\ trans = "None"
    /\ loading.progress_counter > 0

\* C2: the first tick at which the progress counter reports completion decides
\* "switch to Running", and the Example state holds the handle that
\* Loading::on_start stored, which is the handle the loader resolved.
C2_SwitchCarriesHandle ==
    [][(process = "alive" /\ state = "Loading"
          /\ is_complete(loading.progress_counter) /\ frame' # frame)
          => /\ trans' = "Switch"
             /\ state' = "Running"
             /\ example' # None
             /\ example' = loading.prefab_handle
             /\ \A h \in example' : h \in DOMAIN world.assets]_vars

\* C2 witness: the switch has happened, carrying the stored handle
C2_Witness ==
    /\ state = "Running"
    /\ trans = "Switch"
    /\ example # None
    /\ example = loading.prefab_handle

\* C3: no step leaves Running, and every tick in Running decides
\* "no transition".
C3_RunningTerminal ==
    [][state = "Running"
          => /\ state' = "Running"
             /\ (frame' # frame => trans' = "None")]_vars

\* C3 witness: Example::update has run more than once
C3_Witness ==
    /\ state = "Running"
    /\ trans = "None"
    /\ ticks = MaxTicks
    /\ process = "alive"

\* C4: in every run in which the load completed with a descriptor holding a
\* Fly clip and Example::on_start returned, the scene entity eventually has
\* the Fly animation started and looping, unless the application is shut
\* down first.  The engine ticks without end, so a run that refutes this is
\* one in which Example::update is called for ever.
C4_EventuallyFlying ==
    (OnStartReturned /\ Fly \in resource.clips)
        ~> (process = "exited" \/ \E e \in SceneEntities : FlyStarted(e))

\* C5: when the animation-start query of Example::on_start has run, the
\* prefab loader has already processed every entity carrying the prefab
\* handle.
C5_QueryAfterPrefabLoad ==
    JustStarted => \A e \in SceneEntities : e \in world.prefab_tag

\* C6: once Example::on_start has run its pass, every entity carrying an
\* Animation Set carries a control set holding exactly one entry: Fly,
\* looping forever, rate 1.0, command Start.  Stated for the entities whose
\* Animation Set holds the Fly clip; for the others the pass panics (C14).
C6_PassPostcondition ==
    OnStartReturned
        => \A e \in DOMAIN world.animation_sets :
              Fly \in world.animation_sets[e]
                 => /\ e \in DOMAIN world.control_sets
                    /\ world.control_sets[e] = <<FlyEntry>>

\* C7: every step that leaves Example::on_start returned leaves exactly one
\* camera entity, with depth 1.0; the step that runs on_start gives it the
\* orthographic bounds [0,width] x [0,height] of the screen dimensions it
\* found, and later steps leave camera and transform as they are.
C7_OneCamera ==
    [][(state' = "Running" /\ process' = "alive")
          => /\ Cardinality(DOMAIN world'.cameras) = 1
             /\ \A e \in DOMAIN world'.cameras :
                   /\ e \in DOMAIN world'.transforms
                   /\ world'.transforms[e].z = CameraZ
             /\ IF state = "Loading"
                THEN \A e \in DOMAIN world'.cameras :
                        world'.cameras[e] =
                            [left |-> 0, right |-> world.screen.width,
                             bottom |-> 0, top |-> world.screen.height]
                ELSE /\ world'.cameras = world.cameras
                     /\ world'.transforms = world.transforms]_vars

\* C7 witness: on_start ran on a screen that is not square, so that width and
\* height are told apart
C7_Witness ==
    /\ OnStartReturned
    /\ \E e \in CameraEntities :
          /\ world.cameras[e].right # world.cameras[e].top
          /\ world.transforms[e].z = CameraZ

\* C8: once Example::on_start has returned, exactly one entity carries a
\* prefab handle component, and the handle is the one Example received from
\* Loading.
C8_OneSceneEntity ==
    OnStartReturned
        => /\ Cardinality(SceneEntities) = 1
           /\ \A e \in SceneEntities :
                 /\ world.prefab_handles[e] \in example
                 /\ world.prefab_handles[e] \in loading.prefab_handle

\* C8 witness: the scene entity exists and ticks have followed
C8_Witness ==
    /\ OnStartReturned
    /\ ticks >= 3
    /\ SceneEntities # {}
    /\ SceneEntities \cap CameraEntities = {}

\* C9: with a missing or malformed descriptor Running is never reached, and
\* a process whose load has failed never ends with status 0.
C9_LoadFailureIsFatal ==
    /\ resource.status # "ok" => (state = "Loading" /\ example = None)
    /\ (loader = "failed" /\ process = "exited")
          => /\ exit_code # None
             /\ ExitOk \notin exit_code

\* C10: once Running has been entered the process never ends in a fatal
\* error: whenever Running is the active state the process is alive or has
\* exited with status 0.
C10_NoFatalOnceRunning ==
    state = "Running"
        => /\ process # "new"
           /\ \A code \in exit_code : code = ExitOk

\* C10 witness: Example::update has run after on_start returned, on a world
\* whose scene entity was expanded from a descriptor without a Fly clip
C10_Witness ==
    /\ OnStartReturned
    /\ trans = "None"
    /\ \E e \in SceneEntities :
          /\ e \in DOMAIN world.animation_sets
          /\ Fly \notin world.animation_sets[e]

\* C11: no entity exists while Loading is active; once Example::on_start has
\* returned there are exactly two, one camera and one scene entity, and no
\* step ever changes that count again.
C11_TwoEntities ==
    [][/\ state' = "Loading" => world'.n = 0
       /\ (state' = "Running" /\ process' = "alive")
             => /\ world'.n = 2
                /\ Cardinality(DOMAIN world'.cameras) = 1
                /\ Cardinality(DOMAIN world'.prefab_handles) = 1
                /\ DOMAIN world'.cameras \cap DOMAIN world'.prefab_handles = {}
       /\ world'.n # world.n => (state = "Loading" /\ state' = "Running")]_vars

\* C11 witness: both entities exist and updates have followed their creation
C11_Witness ==
    /\ OnStartReturned
    /\ world.n = 2
    /\ trans = "None"
    /\ ticks >= 2

\* C12: on_start registers one load with the progress counter, stores the
\* handle and starts the load; a tick leaves the Loading struct and the load
\* as they are; after on_start the stored handle never changes and the
\* counter never grows, so no second request is ever registered.
C12_OneLoadRequest ==
    [][/\ (process = "new" /\ process' = "alive")
             => /\ loading'.prefab_handle # None
                /\ loading'.progress_counter = loading.progress_counter + 1
                /\ loader = "idle" /\ loader' = "loading"
       /\ frame' # frame => (loading' = loading /\ loader' = loader)
       /\ process # "new"
             => /\ loading'.prefab_handle = loading.prefab_handle
                /\ loading'.progress_counter <= loading.progress_counter
                /\ loader' # "idle"]_vars

\* C12 witness: Loading has been polled at every explored tick with the one
\* load still outstanding
C12_Witness ==
    /\ state = "Loading"
    /\ ticks = MaxTicks
    /\ loading.prefab_handle # None
    /\ loading.progress_counter = 1
    /\ loader = "loading"

\* C13: a poll of Loading that finds the counter complete and the handle slot
\* unset aborts the process with the panic status; it decides neither
\* "switch" nor "no transition", and no Example state is built.
C13_UnsetHandleAborts ==
    [][(state = "Loading" /\ is_complete(loading.progress_counter)
          /\ loading.prefab_handle = None /\ frame' # frame)
          => /\ trans' = "Panic"
             /\ process' = "exited"
             /\ exit_code' = Some(PanicExit)
             /\ state' = "Loading"
             /\ example' = None
             /\ world' = world]_vars

\* C13 witness: the freshly defaulted Loading was polled before on_start
C13_Witness ==
    /\ trans = "Panic"
    /\ process = "exited"
    /\ loading = LoadingDefault
    /\ ticks = 1

\* C14: when the step that runs Example::on_start ends with an entity whose
\* Animation Set has no Fly clip, the process has aborted with the panic
\* status and no entry was added for that entity: its control set is the one
\* it had before, or an empty one (or none) if it had none.
C14_MissingClipPanics ==
    [][(state = "Loading" /\ state' = "Running"
          /\ \E e \in DOMAIN world'.animation_sets :
                Fly \notin world'.animation_sets[e])
          => /\ process' = "exited"
             /\ exit_code' = Some(PanicExit)
             /\ \A e \in DOMAIN world'.animation_sets :
                   Fly \notin world'.animation_sets[e]
                      => IF e \in DOMAIN world.control_sets
                         THEN /\ e \in DOMAIN world'.control_sets
                              /\ world'.control_sets[e] = world.control_sets[e]
                         ELSE \/ e \notin DOMAIN world'.control_sets
                              \/ world'.control_sets[e] = <<>>]_vars

\* C14 witness: the pass met an entity with an Animation Set that has no Fly
\* clip
C14_Witness ==
    /\ JustStarted
    /\ process = "exited"
    /\ exit_code = Some(PanicExit)
    /\ \E e \in DOMAIN world.animation_sets :
          /\ Fly \notin world.animation_sets[e]
          /\ e \in DOMAIN world.control_sets
          /\ world.control_sets[e] = <<>>

\* C16: under fair ticking, a completed load seen in Loading leads to
\* Running, unless the application is shut down first;
\* Running, once entered, is never left and holds exactly the two entities of
\* a single on_start.
C16_EventuallyRunningForever ==
    /\ (loader = "loaded" /\ state = "Loading")
          ~> (state = "Running" \/ process = "exited")
    /\ [](state = "Running" => [](state = "Running" /\ world.n = 2))

\* C16 witness: the application sits in Running after a completed load
C16_Witness ==
    /\ OnStartReturned
    /\ loader = "loaded"
    /\ world.n = 2
    /\ ticks = MaxTicks

\* C17: in the engine-driven run the handle slot is set whenever Loading can
\* be polled, the poll never ends in the "Failed to load prefab data." panic,
\* and Running always holds a handle.
C17_HandleAlwaysSet ==
    /\ (process = "alive" /\ state = "Loading") => loading.prefab_handle # None
    /\ trans # "Panic"
    /\ state = "Running" => example # None

\* C17 witness: the first poll after on_start found the load complete and
\* switched
C17_Witness ==
    /\ state = "Running"
    /\ ticks = 1
    /\ trans = "Switch"
    /\ example # None

====
